---- MODULE Spec2Model ----
(***************************************************************************)
(* One run of the credit-risk dashboard script (src/model_1.py).  The      *)
(* script is executed top to bottom on every page interaction; a run reads *)
(* the widget values, loads the table, validates its columns, derives the  *)
(* three risk columns, filters by region and renders the review sections.  *)
(*                                                                         *)
(* Numbers are the values of pandas float columns: a finite value is an    *)
(* exact fraction n/d in lowest terms, and +inf, -inf and NaN are kept as  *)
(* separate values with the IEEE-754 rules for /, *, + and comparison.     *)
(* The binary64 rounding of finite results is not modelled.                *)
(***************************************************************************)
EXTENDS Integers, Sequences, FiniteSets, TLC

\* Largest number of data rows of a table drawn from the review universe.
MaxRows == 2

Range(s) == {s[i] : i \in DOMAIN s}

Abs(i) == IF i < 0 THEN -i ELSE i

Min(a, b) == IF a <= b THEN a ELSE b

RECURSIVE GCD(_, _)
GCD(a, b) == IF b = 0 THEN a ELSE GCD(b, a % b)

(***************************************************************************)
(* Float values.                                                           *)
(***************************************************************************)
PInf == [k |-> "pinf", n |-> 1, d |-> 0]
NInf == [k |-> "ninf", n |-> -1, d |-> 0]
NaN == [k |-> "nan", n |-> 0, d |-> 0]

\* The finite value n/d (d # 0), in lowest terms with a positive denominator.
Frac(n, d) ==
    LET g == GCD(Abs(n), Abs(d))
        s == IF d < 0 THEN -1 ELSE 1
    IN  [k |-> "fin", n |-> (s * n) \div g, d |-> (s * d) \div g]

IsFin(x) == x.k = "fin"

IsNaN(x) == x.k = "nan"

\* -1, 0 or 1: the sign of a value that is not NaN.
Sign(x) == IF x.n > 0 THEN 1 ELSE IF x.n < 0 THEN -1 ELSE 0

\* x <= y on floats; every comparison with NaN is false.
Leq(x, y) ==
    IF IsNaN(x) \/ IsNaN(y) THEN FALSE
    ELSE IF x.k = "ninf" \/ y.k = "pinf" THEN TRUE
    ELSE IF x.k = "pinf" \/ y.k = "ninf" THEN FALSE
    ELSE x.n * y.d <= y.n * x.d

\* x < y on floats.
Lt(x, y) == Leq(x, y) /\ ~Leq(y, x)

\* Variant of Div that gives 0 for a zero divisor.
Div_ZeroAsZero(a, b) == IF b = 0 THEN Frac(0, 1) ELSE Frac(a, b)

\* Series / Series of two integer columns: true division, x/0 is +-inf or NaN.
Div(a, b) ==
    IF b = 0
    THEN IF a > 0 THEN PInf ELSE IF a < 0 THEN NInf ELSE NaN
    ELSE Frac(a, b)

\* Float product.
Mul(x, y) ==
    IF IsNaN(x) \/ IsNaN(y) THEN NaN
    ELSE IF IsFin(x) /\ IsFin(y) THEN Frac(x.n * y.n, x.d * y.d)
    ELSE IF Sign(x) * Sign(y) > 0 THEN PInf
    ELSE IF Sign(x) * Sign(y) < 0 THEN NInf
    ELSE NaN

\* Float sum.
Add(x, y) ==
    IF IsNaN(x) \/ IsNaN(y) THEN NaN
    ELSE IF IsFin(x) /\ IsFin(y) THEN Frac(x.n * y.d + y.n * x.d, x.d * y.d)
    ELSE IF IsFin(x) THEN y
    ELSE IF IsFin(y) THEN x
    ELSE IF x.k = y.k THEN x
    ELSE NaN

\* np.clip(x, lo, hi) = minimum(maximum(x, lo), hi); NaN stays NaN.
Clip(x, lo, hi) ==
    IF IsNaN(x) THEN NaN
    ELSE IF Lt(x, lo) THEN lo
    ELSE IF Lt(hi, x) THEN hi
    ELSE x

(***************************************************************************)
(* Feature engineering (lines 50-55).                                      *)
(***************************************************************************)
\* Variant of IncomeToLoanRatio with the operands exchanged.
IncomeToLoanRatio_Inverted(income, loan_amount) == Div(loan_amount, income)

\* df["income"] / df["loan_amount"] for one row.
IncomeToLoanRatio(income, loan_amount) == Div(income, loan_amount)

\* np.clip(income_to_loan_ratio * 0.3 + age * 0.01, 0, 1) for one row.
RiskScore(ratio, age) ==
    Clip(Add(Mul(ratio, Frac(3, 10)), Mul(Frac(age, 1), Frac(1, 100))),
         Frac(0, 1), Frac(1, 1))

\* The missing category: the risk_level of a row whose score is in no bin.
NoLevel == "nan"

\* pd.cut(score, bins=[0, 0.3, 0.7, 1], labels=["Low", "Medium", "High"]):
\* right-closed bins (0, 0.3], (0.3, 0.7], (0.7, 1]; a value in no bin,
\* NaN included, gets the missing category.
RiskLevel(score) ==
    IF Lt(Frac(0, 1), score) /\ Leq(score, Frac(3, 10)) THEN "Low"
    ELSE IF Lt(Frac(3, 10), score) /\ Leq(score, Frac(7, 10)) THEN "Medium"
    ELSE IF Lt(Frac(7, 10), score) /\ Leq(score, Frac(1, 1)) THEN "High"
    ELSE NoLevel

\* The three derived columns appended to one row.
DeriveRow(r) ==
    LET ratio == IncomeToLoanRatio(r.income, r.loan_amount)
        score == RiskScore(ratio, r.age)
    IN  [index |-> r.index, age |-> r.age, income |-> r.income,
         loan_amount |-> r.loan_amount, region |-> r.region,
         income_to_loan_ratio |-> ratio,
         risk_score |-> score,
         risk_level |-> RiskLevel(score)]

(***************************************************************************)
(* Input tables.                                                           *)
(***************************************************************************)
required_columns ==
    <<"gender", "age", "income", "loan_amount", "occupation", "loan_history",
      "region">>

\* Column names a loaded table may carry besides the required ones.
OtherColumns == {"Gender"}

\* Cell values of the tables used to exercise the review sections.
ReviewAges == {20, 70}
ReviewIncomes == {3000}
ReviewLoans == {0, 10000}
Regions == {"Ashanti", "Volta"}

\* Cell values of the one-row tables used to exercise the derivation.
EdgeAges == {-10, 0, 30, 40, 70, 100, 1000}
EdgeIncomes == {-3000, -1, 0, 1, 3000, 1000000}
EdgeLoans == {-10000, -1, 0, 1, 10000}

\* A data row as read from the file, before it gets its positional index.
Cells(ages, incomes, loans, regions) ==
    [age : ages, income : incomes, loan_amount : loans, region : regions]

\* pd.read_csv gives the rows a RangeIndex 0, 1, ...
WithRangeIndex(cells) ==
    [i \in DOMAIN cells |->
        [index |-> i - 1, age |-> cells[i].age, income |-> cells[i].income,
         loan_amount |-> cells[i].loan_amount, region |-> cells[i].region]]

SeqsUpTo(S, n) == UNION {[1..m -> S] : m \in 0..n}

\* The row contents of the tables a run may load.
RowTables ==
    {WithRangeIndex(c) :
        c \in SeqsUpTo(Cells(ReviewAges, ReviewIncomes, ReviewLoans, Regions),
                       MaxRows)
              \cup [1..1 -> Cells(EdgeAges, EdgeIncomes, EdgeLoans, {"Ashanti"})]}

\* The column sets a loaded table may have.
ColumnSets == {(Range(required_columns) \ m) \cup o :
                  m \in SUBSET Range(required_columns), o \in SUBSET OtherColumns}

VARIABLES
    pc,               \* the section of the script the run is about to execute
    stages,           \* the sections executed so far, in order
    columns,          \* df.columns
    df,               \* the rows of df, in order, each with its index label
    derived,          \* df as the feature engineering left it
    missing_cols,     \* the list computed by the column validation
    selected_regions, \* value of the region multiselect
    shown,            \* st.error / st.warning / st.write / st.info calls so far
    charts,           \* inputs of the two charts
    selected_index,   \* <<i>> for index label i, << >> for None
    borrower,         \* <<row>> last looked up with df.loc, << >> before
    recommendation,   \* last recommendation computed
    default_position, \* <<p>> for position p (from 0), << >> for None or unset
    lookups,          \* keys passed to df.loc so far
    risk_table,       \* rows displayed by the risk-level table
    metrics           \* the summary metrics

vars ==
    <<pc, stages, columns, df, derived, missing_cols,
      selected_regions, shown, charts, selected_index, borrower,
      recommendation, default_position, lookups, risk_table, metrics>>

\* Variables written by the review and summary sections only.
reviewVars ==
    <<selected_index, borrower, recommendation, default_position, lookups,
      risk_table, metrics>>

Init ==
    /\ pc = "load"
    /\ stages = << >>
    /\ columns = {}
    /\ df = << >>
    /\ derived = << >>
    /\ missing_cols = << >>
    /\ selected_regions = {}
    /\ shown = << >>
    /\ charts = << >>
    /\ selected_index = << >>
    /\ borrower = << >>
    /\ recommendation = ""
    /\ default_position = << >>
    /\ lookups = << >>
    /\ risk_table = << >>
    /\ metrics = << >>

\* Variant of ErrorAndStop without the st.stop(): the run goes on with the
\* next section.
ErrorAndStop_NoStop(text, args) ==
    /\ shown' = Append(shown, [kind |-> "error", text |-> text, args |-> args])
    /\ pc' = IF pc = "load" THEN "validate"
             ELSE IF pc = "validate" THEN "derive"
             ELSE "filter"

\* st.error(...) followed by st.stop(): the message is shown and the run ends.
ErrorAndStop(text, args) ==
    /\ shown' = Append(shown, [kind |-> "error", text |-> text, args |-> args])
    /\ pc' = "stopped"

(***************************************************************************)
(* Load Data (lines 32-41).  read_csv of the uploaded file, or chdir to    *)
(* the fixed directory and read_csv of the fallback file; either may       *)
(* raise, and any exception is reported and stops the run.                 *)
(***************************************************************************)
LoadData ==
    /\ pc = "load"
    /\ stages' = Append(stages, "load")
    /\ \E uploaded_file \in BOOLEAN :
          \* read_csv(uploaded_file) if a file is uploaded, else os.chdir and
          \* read_csv of the fallback file: each either returns a table ...
          \/ /\ \E c \in ColumnSets :
                   /\ columns' = c
                   /\ IF Range(required_columns) \subseteq c
                      THEN df' \in RowTables
                      \* cells of a table lacking a required column are never read
                      ELSE df' = << >>
             /\ pc' = "validate"
             /\ shown' = shown
          \* ... or raises, which the except clause reports
          \/ /\ ErrorAndStop("Error loading data", << >>)
             /\ UNCHANGED <<columns, df>>
    /\ UNCHANGED <<derived, missing_cols, selected_regions, charts>>
    /\ UNCHANGED reviewVars

\* Variant of MissingCols that matches "gender" without regard to case.
MissingCols_IgnoreCase(cols) ==
    LET absent(col) == col \notin cols /\ ~(col = "gender" /\ "Gender" \in cols)
    IN  SelectSeq(required_columns, absent)

\* [col for col in required_columns if col not in df.columns]
MissingCols(cols) ==
    LET absent(col) == col \notin cols
    IN  SelectSeq(required_columns, absent)

(***************************************************************************)
(* Column Validation (lines 43-47).                                        *)
(***************************************************************************)
ColumnValidation ==
    /\ pc = "validate"
    /\ stages' = Append(stages, "validate")
    /\ missing_cols' = MissingCols(columns)
    /\ IF MissingCols(columns) # << >>
       THEN ErrorAndStop("Missing required columns", MissingCols(columns))
       ELSE pc' = "derive" /\ shown' = shown
    /\ UNCHANGED <<columns, df, derived, selected_regions, charts>>
    /\ UNCHANGED reviewVars

(***************************************************************************)
(* Feature Engineering (lines 49-58).                                      *)
(***************************************************************************)
FeatureEngineering ==
    /\ pc = "derive"
    /\ stages' = Append(stages, "derive")
    /\ IF {"income", "loan_amount", "age"} \subseteq columns
       THEN /\ df' = [i \in DOMAIN df |-> DeriveRow(df[i])]
            /\ derived' = df'
            /\ columns' = columns \cup
                          {"income_to_loan_ratio", "risk_score", "risk_level"}
            /\ pc' = "filter"
            /\ shown' = shown
       ELSE /\ ErrorAndStop("Feature engineering failed due to missing columns",
                            << >>)
            /\ UNCHANGED <<df, derived, columns>>
    /\ UNCHANGED <<missing_cols, selected_regions, charts>>
    /\ UNCHANGED reviewVars

\* df["region"].unique(), as a set.
UniqueRegions(rows) == {rows[i].region : i \in DOMAIN rows}

\* Variant of IsIn that compares with one selected region only.
IsIn_FirstSelected(rows, R) ==
    LET first == CHOOSE x \in R : TRUE
        keep(r) == r.region = first
    IN  SelectSeq(rows, keep)

\* df[df["region"].isin(R)]: the rows with region in R, order and labels kept.
IsIn(rows, R) ==
    LET keep(r) == r.region \in R
    IN  SelectSeq(rows, keep)

(***************************************************************************)
(* Sidebar Filters (lines 60-65).  The multiselect offers the regions of   *)
(* df and has no default; an empty selection leaves df as it is.           *)
(***************************************************************************)
SidebarFilters ==
    /\ pc = "filter"
    /\ stages' = Append(stages, "filter")
    /\ \E R \in SUBSET UniqueRegions(df) :
          /\ selected_regions' = R
          /\ df' = IF R # {} THEN IsIn(df, R) ELSE df
    /\ pc' = "charts"
    /\ UNCHANGED <<columns, derived, missing_cols, shown, charts>>
    /\ UNCHANGED reviewVars

\* Sum of the scores that are not NaN.
RECURSIVE SumScores(_)
SumScores(rows) ==
    IF rows = << >> THEN Frac(0, 1)
    ELSE IF IsNaN(Head(rows).risk_score) THEN SumScores(Tail(rows))
    ELSE Add(Head(rows).risk_score, SumScores(Tail(rows)))

\* Series.mean(): the mean of the values that are not NaN, NaN if none.
MeanScore(rows) ==
    LET known(r) == ~IsNaN(r.risk_score)
        m == Len(SelectSeq(rows, known))
    IN  IF m = 0 THEN NaN ELSE Mul(SumScores(rows), Frac(1, m))

\* The rows whose risk_level equals the label.
WithLevel(rows, level) ==
    LET same(r) == r.risk_level = level
    IN  SelectSeq(rows, same)

\* df.groupby("region").agg(avg_risk_score, high_risk_pct)
RegionSummary(rows) ==
    [g \in UniqueRegions(rows) |->
        LET grp == IsIn(rows, {g})
        IN  [avg_risk_score |-> MeanScore(grp),
             high_risk_pct |-> Frac(100 * Len(WithLevel(grp, "High")), Len(grp))]]

(***************************************************************************)
(* Risk distribution and regional risk charts (lines 67-124).              *)
(***************************************************************************)
RiskCharts ==
    /\ pc = "charts"
    /\ stages' = Append(stages, "charts")
    /\ charts' = <<[histogram |-> df, region_summary |-> RegionSummary(df)]>>
    /\ pc' = "review"
    /\ UNCHANGED <<columns, df, derived, missing_cols,
                   selected_regions, shown>>
    /\ UNCHANGED reviewVars

\* TRUE iff row a must come before row b when sorting by risk_score:
\* NaN scores go last in both directions.
Before(a, b, ascending) ==
    /\ ~IsNaN(a.risk_score)
    /\ \/ IsNaN(b.risk_score)
       \/ IF ascending THEN Lt(a.risk_score, b.risk_score)
                       ELSE Lt(b.risk_score, a.risk_score)

\* df.sort_values(by="risk_score", ascending=...): the default sort is not
\* stable, so rows with equal scores may come out in any order.
SortValues(rows, ascending) ==
    LET n == Len(rows)
        perms == {p \in [1..n -> 1..n] : \A i, j \in 1..n : i # j => p[i] # p[j]}
    IN  {[i \in 1..n |-> rows[p[i]]] : p \in
            {q \in perms : \A i, j \in 1..n :
                               i < j => ~Before(rows[q[j]], rows[q[i]], ascending)}}

\* .head(n)
HeadN(rows, n) == SubSeq(rows, 1, Min(n, Len(rows)))

\* .index.tolist()
IndexList(rows) == [i \in DOMAIN rows |-> rows[i].index]

\* df.loc[label] for a label of the index.
Loc(rows, label) ==
    LET i == CHOOSE j \in DOMAIN rows : rows[j].index = label
    IN  rows[i]

\* Variant of Recommendation that approves only Low-risk borrowers.
Recommendation_NotLow(b) ==
    IF b.risk_level # "Low" THEN "Review manually" ELSE "Likely Approve"

\* "Review manually" if borrower["risk_level"] == "High" else "Likely Approve"
Recommendation(b) ==
    IF b.risk_level = "High" THEN "Review manually" ELSE "Likely Approve"

(***************************************************************************)
(* Top 10 High-Risk Borrowers (lines 131-138).  st.selectbox returns the   *)
(* option the user picked, or None when there are no options; df.loc[None] *)
(* raises KeyError, which nothing catches.                                 *)
(***************************************************************************)
Top10Review ==
    /\ pc = "review"
    /\ stages' = Append(stages, "review")
    /\ \E top_risk \in {HeadN(s, 10) : s \in SortValues(df, FALSE)} :
          LET options == IndexList(top_risk)
          IN  IF options = << >>
              THEN /\ selected_index' = << >>
                   /\ lookups' = Append(lookups, << >>)
                   /\ shown' = Append(shown, [kind |-> "exception",
                                               text |-> "KeyError",
                                               args |-> << >>])
                   /\ pc' = "crashed"
                   /\ UNCHANGED <<borrower, recommendation>>
              ELSE \E pos \in DOMAIN options :
                      /\ selected_index' = <<options[pos]>>
                      /\ lookups' = Append(lookups, <<options[pos]>>)
                      /\ borrower' = <<Loc(df, options[pos])>>
                      /\ recommendation' = Recommendation(Loc(df, options[pos]))
                      /\ shown' = Append(shown,
                             [kind |-> "write", text |-> "Borrower is risk",
                              args |-> <<options[pos],
                                         Loc(df, options[pos]).risk_level,
                                         Recommendation(Loc(df, options[pos]))>>])
                      /\ pc' = "recommend"
    /\ UNCHANGED <<columns, df, derived, missing_cols,
                   selected_regions, charts, default_position, risk_table,
                   metrics>>

\* A float rounded to a multiple of 1/scale, ties to even; NaN stays NaN.
\* Used on scores only, which are never infinite.
RoundTo(x, scale) ==
    IF ~IsFin(x) THEN x
    ELSE LET q == (x.n * scale) \div x.d
             r == (x.n * scale) % x.d
         IN  IF 2 * r > x.d \/ (2 * r = x.d /\ q % 2 = 1)
             THEN Frac(q + 1, scale)
             ELSE Frac(q, scale)

\* select_options.index(label), counted from 0.
ListIndex(list, label) ==
    (CHOOSE i \in DOMAIN list :
        list[i] = label /\ \A j \in DOMAIN list : list[j] = label => i <= j) - 1

\* The if / elif / else of lines 145-153: the preselected position and the
\* message shown with it, if any.
DefaultPosition(top_indices, select_options) ==
    IF top_indices # << >> /\ top_indices[1] \in Range(select_options)
    THEN [position |-> <<ListIndex(select_options, top_indices[1])>>,
          message |-> << >>]
    ELSE IF select_options # << >>
    THEN [position |-> <<0>>,
          message |-> <<[kind |-> "warning",
                         text |-> "No high-risk borrowers available in the current filter. Showing first borrower instead.",
                         args |-> << >>]>>]
    ELSE [position |-> << >>,
          message |-> <<[kind |-> "error",
                         text |-> "No borrowers available to review. Please adjust your filters.",
                         args |-> << >>]>>]

(***************************************************************************)
(* Loan Decision Recommendation (lines 140-162).                           *)
(***************************************************************************)
LoanDecision ==
    /\ pc = "recommend"
    /\ stages' = Append(stages, "recommend")
    /\ \E sorted \in SortValues(df, FALSE) :
          LET top_indices == IndexList(HeadN(sorted, 5))
              select_options == IndexList(df)
              choice == DefaultPosition(top_indices, select_options)
          IN  /\ default_position' = choice.position
              /\ IF select_options # << >> /\ choice.position # << >>
                 THEN \E pos \in DOMAIN select_options :
                         LET label == select_options[pos]
                             b == Loc(df, label)
                         IN  /\ selected_index' = <<label>>
                             /\ lookups' = Append(lookups, <<label>>)
                             /\ borrower' = <<b>>
                             /\ recommendation' = Recommendation(b)
                             /\ shown' = shown \o choice.message \o
                                   <<[kind |-> "info", text |-> "Borrower is risk",
                                      args |-> <<label, b.risk_level,
                                                 RoundTo(b.risk_score, 1000),
                                                 Recommendation(b)>>]>>
                 ELSE /\ shown' = shown \o choice.message
                      /\ UNCHANGED <<selected_index, lookups, borrower,
                                     recommendation>>
    /\ pc' = "levels"
    /\ UNCHANGED <<columns, df, derived, missing_cols,
                   selected_regions, charts, risk_table, metrics>>

\* The columns of the two detail tables; the index label stays.
DetailColumns(rows) ==
    [i \in DOMAIN rows |->
        [index |-> rows[i].index, age |-> rows[i].age,
         income |-> rows[i].income, loan_amount |-> rows[i].loan_amount,
         risk_level |-> rows[i].risk_level, risk_score |-> rows[i].risk_score,
         income_to_loan_ratio |-> rows[i].income_to_loan_ratio]]

(***************************************************************************)
(* Risk-level table (lines 164-177).                                       *)
(***************************************************************************)
RiskLevelTable ==
    /\ pc = "levels"
    /\ stages' = Append(stages, "levels")
    /\ \E selected_level \in {"All", "Low", "Medium", "High"} :
          LET filtered_df == IF selected_level = "All" THEN df
                             ELSE WithLevel(df, selected_level)
          IN  /\ shown' = Append(shown,
                     [kind |-> "write", text |-> "Displaying borrowers in group",
                      args |-> <<Len(filtered_df), selected_level>>])
              /\ risk_table' \in
                    {HeadN(s, 10) :
                        s \in SortValues(DetailColumns(filtered_df),
                                         selected_level \in {"Low", "All"})}
    /\ pc' = "summary"
    /\ UNCHANGED <<columns, df, derived, missing_cols,
                   selected_regions, charts, selected_index, borrower,
                   recommendation, default_position, lookups, metrics>>

(***************************************************************************)
(* Summary Section (lines 179-192).                                        *)
(***************************************************************************)
SummarySection ==
    /\ pc = "summary"
    /\ stages' = Append(stages, "summary")
    /\ metrics' = <<[overview |-> DetailColumns(df),
                     total_borrowers |-> Len(df),
                     high_risk_borrowers |-> Len(WithLevel(df, "High")),
                     average_risk_score |-> RoundTo(MeanScore(df), 100)]>>
    /\ pc' = "done"
    /\ UNCHANGED <<columns, df, derived, missing_cols,
                   selected_regions, shown, charts, selected_index, borrower,
                   recommendation, default_position, lookups, risk_table>>

Next ==
    \/ LoadData
    \/ ColumnValidation
    \/ FeatureEngineering
    \/ SidebarFilters
    \/ RiskCharts
    \/ Top10Review
    \/ LoanDecision
    \/ RiskLevelTable
    \/ SummarySection

Spec == Init /\ [][Next]_vars

(***************************************************************************)
(* Properties.                                                             *)
(***************************************************************************)
Zero == Frac(0, 1)
One == Frac(1, 1)

\* TRUE iff the section has been executed in this run.
Ran(stage) == \E i \in DOMAIN stages : stages[i] = stage

\* TRUE iff a message of this kind with this text has been shown.
Shown(kind, text) ==
    \E i \in DOMAIN shown : shown[i].kind = kind /\ shown[i].text = text

\* The order of the sections of the script.
SectionOrder ==
    <<"load", "validate", "derive", "filter", "charts", "review", "recommend",
      "levels", "summary">>

\* C1: after the derivation every row's risk_score lies in [0, 1], whatever
\* the values of income, loan_amount and age.
C1_ScoreInUnitInterval ==
    Ran("derive") =>
        \A i \in DOMAIN derived :
            /\ Leq(Zero, derived[i].risk_score)
            /\ Leq(derived[i].risk_score, One)

\* C2: risk_level is Low iff score <= 0.3, Medium iff 0.3 < score <= 0.7 and
\* High iff score > 0.7, so every score in [0, 1] gets one of the three labels.
C2_LevelThresholds ==
    Ran("derive") =>
        \A i \in DOMAIN derived :
            LET x == derived[i].risk_score
                l == derived[i].risk_level
            IN  /\ l = "Low" <=> Leq(x, Frac(3, 10))
                /\ l = "Medium" <=> (Lt(Frac(3, 10), x) /\ Leq(x, Frac(7, 10)))
                /\ l = "High" <=> Lt(Frac(7, 10), x)
                /\ (Leq(Zero, x) /\ Leq(x, One)) => l \in {"Low", "Medium", "High"}

\* C3: once the columns are validated, the reported list holds exactly the
\* required names absent from the table, each once; if it is not empty the
\* run stopped there with that list in the error message and nothing was
\* derived, filtered or rendered; if it is empty nothing was reported and the
\* run goes on.
C3_MissingColumnsReported ==
    Ran("validate") =>
        /\ Range(missing_cols) = Range(required_columns) \ columns
        /\ Len(missing_cols) = Cardinality(Range(missing_cols))
        /\ missing_cols # << >> =>
              /\ pc = "stopped"
              /\ stages = <<"load", "validate">>
              /\ shown = <<[kind |-> "error", text |-> "Missing required columns",
                            args |-> missing_cols]>>
              /\ derived = << >> /\ charts = << >> /\ metrics = << >>
              /\ lookups = << >> /\ selected_regions = {}
        /\ missing_cols = << >> =>
              /\ ~Shown("error", "Missing required columns")
              /\ pc # "stopped"

\* C3 witness: a table that lacks several required columns, with a column
\* whose name differs from a required one in case only, was stopped.
C3_Witness ==
    /\ pc = "stopped"
    /\ Len(missing_cols) >= 2
    /\ missing_cols[1] = "gender"
    /\ "Gender" \in columns
    /\ "age" \in columns

\* C4 as stated: after the sidebar filter, the dataset is exactly the derived
\* rows whose region is in the selected set R.
C4_FilterIsExactSubset ==
    Ran("filter") =>
        /\ \A i \in DOMAIN df : df[i].region \in selected_regions
        /\ \A i \in DOMAIN derived :
              derived[i].region \in selected_regions =>
                  \E j \in DOMAIN df : df[j] = derived[i]

\* C4 amended: with a non-empty selection R the dataset is exactly the
\* derived rows whose region is in R, in their order; with an empty
\* selection every derived row is kept.
C4_FilterNonEmptySelection ==
    Ran("filter") =>
        /\ selected_regions # {} =>
              /\ \A i \in DOMAIN df :
                    /\ df[i].region \in selected_regions
                    /\ \E j \in DOMAIN derived : derived[j] = df[i]
              /\ \A i \in DOMAIN derived :
                    derived[i].region \in selected_regions =>
                        \E j \in DOMAIN df : df[j] = derived[i]
              /\ \A i, j \in DOMAIN df : i < j => df[i].index < df[j].index
        /\ selected_regions = {} => df = derived

\* C4 witness: a selection of one of two regions dropped a row and kept one.
C4_Witness ==
    /\ Ran("filter")
    /\ selected_regions # {}
    /\ Len(df) >= 1
    /\ Len(df) < Len(derived)

\* C5: for every row with loan_amount # 0 the ratio is income / loan_amount
\* and the score is (30 * income + age * loan_amount) / (100 * loan_amount)
\* clipped to [0, 1]; the row {age 40, income 3000, loan_amount 10000} gets
\* ratio 0.3, score 0.49 and level Medium.
C5_DerivationFormula ==
    Ran("derive") =>
        \A i \in DOMAIN derived :
            LET r == derived[i]
                raw == Frac(30 * r.income + r.age * r.loan_amount,
                            100 * r.loan_amount)
            IN  r.loan_amount # 0 =>
                  /\ IsFin(r.income_to_loan_ratio)
                  /\ r.income_to_loan_ratio.n * r.loan_amount
                        = r.income * r.income_to_loan_ratio.d
                  /\ r.risk_score = IF raw.n < 0 THEN Zero
                                    ELSE IF raw.n > raw.d THEN One
                                    ELSE raw
                  /\ (r.age = 40 /\ r.income = 3000 /\ r.loan_amount = 10000) =>
                        /\ r.income_to_loan_ratio = [k |-> "fin", n |-> 3, d |-> 10]
                        /\ r.risk_score = [k |-> "fin", n |-> 49, d |-> 100]
                        /\ r.risk_level = "Medium"

\* C5 witness: the example row has been derived.
C5_Witness ==
    /\ Ran("derive")
    /\ \E i \in DOMAIN derived :
          /\ derived[i].age = 40
          /\ derived[i].income = 3000
          /\ derived[i].loan_amount = 10000
          /\ derived[i].risk_level = "Medium"

\* TRUE iff some row of the current dataset is High risk.
HasHighRisk == \E i \in DOMAIN df : df[i].risk_level = "High"

\* C6: in the recommendation selector, a dataset with rows but no High-risk
\* row gets the warning and the first row as preselection; a dataset with a
\* High-risk row gets no warning and a High-risk row as preselection.
C6_FallbackWarning ==
    (Ran("recommend") /\ df # << >>) =>
        IF HasHighRisk
        THEN /\ ~Shown("warning", "No high-risk borrowers available in the current filter. Showing first borrower instead.")
             /\ default_position # << >>
             /\ df[default_position[1] + 1].risk_level = "High"
        ELSE /\ Shown("warning", "No high-risk borrowers available in the current filter. Showing first borrower instead.")
             /\ default_position = <<0>>

\* C7: with no rows at all, the review section shows the "No borrowers
\* available" error, offers no selection and looks up no borrower row.
C7_EmptyDatasetReview ==
    (Ran("review") /\ df = << >>) =>
        /\ lookups = << >>
        /\ selected_index = << >>
        /\ pc # "crashed"
        /\ Ran("recommend") =>
              Shown("error", "No borrowers available to review. Please adjust your filters.")

\* C8: the sections run in the fixed order; a load failure is reported and
\* nothing runs after it; the derivation runs only after a validation that
\* found no column missing.
C8_StageOrder ==
    /\ Len(stages) <= Len(SectionOrder)
    /\ \A i \in DOMAIN stages : stages[i] = SectionOrder[i]
    /\ Shown("error", "Error loading data") =>
          /\ stages = <<"load">>
          /\ pc = "stopped"
          /\ shown = <<[kind |-> "error", text |-> "Error loading data",
                        args |-> << >>]>>
          /\ derived = << >> /\ charts = << >> /\ metrics = << >>
          /\ missing_cols = << >> /\ lookups = << >>
    /\ pc = "stopped" => Len(stages) <= 2 /\ shown # << >>
    /\ Ran("derive") =>
          /\ Ran("validate")
          /\ missing_cols = << >>
          /\ Range(required_columns) \subseteq columns
          /\ ~Shown("error", "Missing required columns")

\* C8 witness: a run whose load failed has stopped.
C8_Witness ==
    /\ pc = "stopped"
    /\ Shown("error", "Error loading data")

C10_RecommendationMatchesLevel ==
    /\ borrower # << >> =>
          /\ selected_index = <<borrower[1].index>>
          /\ \E i \in DOMAIN df : df[i] = borrower[1]
          /\ recommendation = "Review manually" <=> borrower[1].risk_level = "High"
          /\ recommendation = "Likely Approve" <=> borrower[1].risk_level # "High"
          /\ Lt(Frac(7, 10), borrower[1].risk_score) =>
                recommendation = "Review manually"
    /\ \A m \in DOMAIN shown :
          shown[m].text = "Borrower is risk" =>
              LET a == shown[m].args
                  b == Loc(df, a[1])
              IN  /\ a[2] = b.risk_level
                  /\ a[Len(a)] = "Review manually" <=> b.risk_level = "High"
                  /\ a[Len(a)] = "Likely Approve" <=> b.risk_level # "High"
                  /\ Lt(Frac(7, 10), b.risk_score) => a[Len(a)] = "Review manually"

\* C10 witness: one run recommended approval for a Low-risk borrower in the
\* Top-10 selector and manual review for a High-risk one in the second.
C10_Witness ==
    /\ pc = "done"
    /\ borrower[1].risk_level = "High"
    /\ recommendation = "Review manually"
    /\ \E m \in DOMAIN shown :
          /\ shown[m].kind = "write"
          /\ shown[m].text = "Borrower is risk"
          /\ shown[m].args[2] = "Low"
          /\ shown[m].args[3] = "Likely Approve"

====
